---- MODULE Spec2Model ----
(***************************************************************************)
(* State-machine model of the better-types core: the Result algebra         *)
(* (helpers/result.ts) and the two fluent pipelines ResultPipe and          *)
(* ContextPipe with the Context helper (helpers/pipe.ts).                    *)
(*                                                                           *)
(* Pipelines are objects on a heap; an object's identity is its index.      *)
(* A run is one fluent chain: pipeResult (or pipeResultWithContext,          *)
(* pipeWithContext) wraps an initial Result, every chain method is called    *)
(* or terminal operation is called on the pipeline the previous chain call   *)
(* returned.  Every method call is one action: it reads the receiver, runs   *)
(* the method body (callback invocations included) and either allocates the  *)
(* pipeline the method constructs or hands back the receiver itself.         *)
(***************************************************************************)
EXTENDS Integers, Sequences, FiniteSets, TLC

VARIABLES heap, last

vars == <<heap, last>>

\* ------------------------------------------------------------------ bounds
\* Success payloads are the numbers 0..MaxVal.
MaxVal == 1
\* Error payloads are references 1..MaxErr to distinct JavaScript values.
MaxErr == 2
\* Number of pipeline objects a run allocates.
MaxPipes == 3
\* Number of links of a ContextPipe chain, its root included.
MaxCtxPipes == 4
\* Number of tagged values a run constructs.
MaxTagged == 2
\* Number of package values a run constructs.
MaxPackages == 4
\* Number of links of a cart pipeline, its root included.
MaxCartPipes == 5

Values == 0..MaxVal
ErrRefs == 1..MaxErr

\* ------------------------------------------------------------ result.ts
ok(data) == [tag |-> "Ok", data |-> data]

error(e) == [tag |-> "Error", error |-> e]

isOk(result) == result.tag = "Ok"

isError(result) == result.tag = "Error"

Results == {ok(v) : v \in Values} \cup {error(e) : e \in ErrRefs}

\* String(e) of JavaScript: reference 1 is the string "NetworkError", every
\* other reference is a distinct plain object, all of which print alike.
String(e) == IF e = 1 THEN "NetworkError" ELSE "[object Object]"

\* ------------------------------------------------------------ callbacks
\* The callbacks handed to the pipeline: total functions, as the signatures
\* of pipe.ts require.
Identity == [x \in Values |-> x]
Succ == [x \in Values |-> (x + 1) % (MaxVal + 1)]
Zero == [x \in Values |-> 0]

\* fn: (value: T) => R
MapFns == {Identity, Succ, Zero}

\* fn: (value: T) => Result<R, F>
FlatMapFns ==
  { [x \in Values |-> ok(Succ[x])],
    [x \in Values |-> error(MaxErr)],
    [x \in Values |-> IF x > 0 THEN ok(x) ELSE error(1)] }

\* fn: (error: E) => F
MapErrorFns == { [e \in ErrRefs |-> e], [e \in ErrRefs |-> (e % MaxErr) + 1] }

\* fn: (error: E) => T
RecoverFns == { [e \in ErrRefs |-> 0], [e \in ErrRefs |-> e % (MaxVal + 1)] }

\* predicate: (value: T) => boolean
Predicates == { [x \in Values |-> x > 0], [x \in Values |-> TRUE] }

\* fn: (error: E) => void, whose return value nobody reads
TapErrorFns == { [e \in ErrRefs |-> e] }

\* What a method call does: it returns a freshly constructed pipeline (fresh)
\* wrapping result and context and leaves the receiver alone, or it returns
\* the receiver (~fresh), whose fields are result and context when the call
\* ends.  calls holds the argument tuple of each callback invocation in order.
Outcome(fresh, result, context, calls) ==
  [fresh |-> fresh, result |-> result, context |-> context, calls |-> calls]

NoContext == <<>>

\* ---------------------------------------------------- pipe.ts: ResultPipe
\* map, reusing the receiver when there is nothing to transform.
ResultPipe_map_reuse(this, fn) ==
  IF this.result.tag = "Ok"
    THEN Outcome(TRUE, ok(fn[this.result.data]), NoContext, << <<this.result.data>> >>)
    ELSE Outcome(FALSE, this.result, this.context, <<>>)

\* map, keeping the old data when fn returns a falsy value: fn(data) || data.
ResultPipe_map_falsy(this, fn) ==
  IF this.result.tag = "Ok"
    THEN Outcome(TRUE,
                 ok(IF fn[this.result.data] = 0 THEN this.result.data
                                                ELSE fn[this.result.data]),
                 NoContext, << <<this.result.data>> >>)
    ELSE Outcome(TRUE, error(this.result.error), NoContext, <<>>)

ResultPipe_map(this, fn) ==
  IF this.result.tag = "Ok"
    THEN Outcome(TRUE, ok(fn[this.result.data]), NoContext, << <<this.result.data>> >>)
    ELSE Outcome(TRUE, error(this.result.error), NoContext, <<>>)

\* flatMap, keeping the receiver's data when fn fails.
ResultPipe_flatMap_swallow(this, fn) ==
  IF this.result.tag = "Ok"
    THEN Outcome(TRUE,
                 IF fn[this.result.data].tag = "Ok" THEN fn[this.result.data]
                                                     ELSE ok(this.result.data),
                 NoContext, << <<this.result.data>> >>)
    ELSE Outcome(TRUE, error(this.result.error), NoContext, <<>>)

ResultPipe_flatMap(this, fn) ==
  IF this.result.tag = "Ok"
    THEN Outcome(TRUE, fn[this.result.data], NoContext, << <<this.result.data>> >>)
    ELSE Outcome(TRUE, error(this.result.error), NoContext, <<>>)

ResultPipe_mapToResult(this, fn) ==
  IF this.result.tag = "Ok"
    THEN Outcome(TRUE, ok(fn[this.result.data]), NoContext, << <<this.result.data>> >>)
    ELSE Outcome(TRUE, error(this.result.error), NoContext, <<>>)

ResultPipe_mapError(this, fn) ==
  IF this.result.tag = "Ok"
    THEN Outcome(TRUE, ok(this.result.data), NoContext, <<>>)
    ELSE Outcome(TRUE, error(fn[this.result.error]), NoContext, << <<this.result.error>> >>)

\* tap, without the test of the tag.
ResultPipe_tap_eager(this, fn) ==
  IF this.result.tag = "Ok"
    THEN Outcome(FALSE, this.result, this.context, << <<this.result.data>> >>)
    ELSE Outcome(FALSE, this.result, this.context, << <<this.result.error>> >>)

\* tap, wrapping what fn returns as map does.
ResultPipe_tap_map(this, fn) ==
  IF this.result.tag = "Ok"
    THEN Outcome(TRUE, ok(fn[this.result.data]), NoContext, << <<this.result.data>> >>)
    ELSE Outcome(TRUE, error(this.result.error), NoContext, <<>>)

ResultPipe_tap(this, fn) ==
  IF this.result.tag = "Ok"
    THEN Outcome(FALSE, this.result, this.context, << <<this.result.data>> >>)
    ELSE Outcome(FALSE, this.result, this.context, <<>>)

ResultPipe_tapError(this, fn) ==
  IF this.result.tag = "Error"
    THEN Outcome(FALSE, this.result, this.context, << <<this.result.error>> >>)
    ELSE Outcome(FALSE, this.result, this.context, <<>>)

\* filter, failing an Error pipeline with errorValue.
ResultPipe_filter_overwrite(this, predicate, errorValue) ==
  IF this.result.tag = "Ok"
    THEN Outcome(TRUE,
                 IF predicate[this.result.data]
                   THEN ok(this.result.data) ELSE error(errorValue),
                 NoContext, << <<this.result.data>> >>)
    ELSE Outcome(TRUE, error(errorValue), NoContext, <<>>)

\* filter, with the branches of the conditional swapped.
ResultPipe_filter_inverted(this, predicate, errorValue) ==
  IF this.result.tag = "Ok"
    THEN Outcome(TRUE,
                 IF predicate[this.result.data]
                   THEN error(errorValue) ELSE ok(this.result.data),
                 NoContext, << <<this.result.data>> >>)
    ELSE Outcome(TRUE, error(this.result.error), NoContext, <<>>)

ResultPipe_filter(this, predicate, errorValue) ==
  IF this.result.tag = "Ok"
    THEN Outcome(TRUE,
                 IF predicate[this.result.data]
                   THEN ok(this.result.data) ELSE error(errorValue),
                 NoContext, << <<this.result.data>> >>)
    ELSE Outcome(TRUE, error(this.result.error), NoContext, <<>>)

\* recover, passing the Error through as the other methods do.
ResultPipe_recover_noop(this, fn) ==
  IF this.result.tag = "Ok"
    THEN Outcome(TRUE, ok(this.result.data), NoContext, <<>>)
    ELSE Outcome(TRUE, error(this.result.error), NoContext, <<>>)

ResultPipe_recover(this, fn) ==
  IF this.result.tag = "Ok"
    THEN Outcome(TRUE, ok(this.result.data), NoContext, <<>>)
    ELSE Outcome(TRUE, ok(fn[this.result.error]), NoContext, << <<this.result.error>> >>)

\* Terminal operations: what the call returns, or the fault it raises.
Returned(value) == [raised |-> FALSE, value |-> value, message |-> ""]

Raised(message) == [raised |-> TRUE, value |-> 0, message |-> message]

ResultPipe_unwrap(this) == Returned(this.result)

ResultPipe_unwrapOr(this, defaultValue) ==
  IF this.result.tag = "Ok"
    THEN Returned(this.result.data)
    ELSE Returned(defaultValue)

\* unwrapOrThrow, raising a fixed message.
ResultPipe_unwrapOrThrow_fixed(this) ==
  IF this.result.tag = "Ok"
    THEN Returned(this.result.data)
    ELSE Raised("Error")

ResultPipe_unwrapOrThrow(this) ==
  IF this.result.tag = "Ok"
    THEN Returned(this.result.data)
    ELSE Raised(String(this.result.error))

\* ------------------------------------------------------- pipe.ts: Context
\* A Context wraps a private copy of a mapping from keys to values.
Keys == {"amount", "card"}

\* What reading a missing key gives (JavaScript's undefined).
Undefined == -1

\* constructor(context): this.context = { ...context }
Context_new(context) == [k \in DOMAIN context |-> context[k]]

\* set, without the spread of the entries there are: new Context({ [key]: value }).
Context_set_alone(this, key, value) ==
  Context_new([k \in {key} |-> value])

\* set(key, value): new Context({ ...this.context, [key]: value })
Context_set(this, key, value) ==
  Context_new([k \in DOMAIN this \cup {key} |-> IF k = key THEN value ELSE this[k]])

Context_get(this, key) == IF key \in DOMAIN this THEN this[key] ELSE Undefined

Context_getContext(this) == this

EmptyContext == [k \in {} |-> Undefined]

\* Callbacks of a ContextPipe are closures (value, ctx) => ..., given by
\* their body:
\*   set      ctx.set(key, value)                    (setContext)
\*   keep     ctx                                    (setContext)
\*   get      ctx.get(key)                           (map, mapToResult)
\*   drop     ctx.set(key, value), then value        (map, mapToResult)
\*   okGet    ok(ctx.get(key))                       (flatMap)
\*   fail     ctx.set(key, value), then error(1)     (flatMap)
\*   stale    first                                  (setContext)
\* where first is the accessor the first callback of the chain was handed
\* and kept: a Context over the root's context {}.
Closure(body, key) == [body |-> body, key |-> key]

SetContextFns ==
  {Closure("set", k) : k \in Keys} \cup {Closure("keep", "amount"), Closure("stale", "amount")}

CtxMapFns == {Closure("get", k) : k \in Keys} \cup {Closure("drop", "card")}

CtxFlatMapFns == {Closure("okGet", "amount"), Closure("fail", "card")}

CallFn(fn, value, ctx) ==
  CASE fn.body = "set" -> Context_set(ctx, fn.key, value)
    [] fn.body = "keep" -> ctx
    [] fn.body = "get" -> Context_get(ctx, fn.key)
    [] fn.body = "drop" -> value
    [] fn.body = "okGet" -> ok(Context_get(ctx, fn.key))
    [] fn.body = "fail" -> error(1)
    [] fn.body = "stale" -> Context_new(EmptyContext)

\* --------------------------------------------------- pipe.ts: ContextPipe
\* setContext, storing the new context in the receiver and returning it.
ContextPipe_setContext_inplace(this, fn) ==
  IF this.result.tag = "Ok"
    THEN LET newContext == CallFn(fn, this.result.data, Context_new(this.context))
         IN Outcome(FALSE, this.result, Context_getContext(newContext),
                    << <<this.result.data, Context_new(this.context)>> >>)
    ELSE Outcome(FALSE, this.result, this.context, <<>>)

\* setContext, handing the callback an accessor over nothing.
ContextPipe_setContext_fresh(this, fn) ==
  IF this.result.tag = "Ok"
    THEN LET newContext == CallFn(fn, this.result.data, Context_new(EmptyContext))
         IN Outcome(TRUE, this.result, Context_getContext(newContext),
                    << <<this.result.data, Context_new(EmptyContext)>> >>)
    ELSE Outcome(TRUE, error(this.result.error), this.context, <<>>)

ContextPipe_setContext(this, fn) ==
  IF this.result.tag = "Ok"
    THEN LET newContext == CallFn(fn, this.result.data, Context_new(this.context))
         IN Outcome(TRUE, this.result, Context_getContext(newContext),
                    << <<this.result.data, Context_new(this.context)>> >>)
    ELSE Outcome(TRUE, error(this.result.error), this.context, <<>>)

\* map, constructing the pipeline without its context argument, which then
\* defaults to {}.
ContextPipe_map_nocontext(this, fn) ==
  IF this.result.tag = "Ok"
    THEN Outcome(TRUE, ok(CallFn(fn, this.result.data, Context_new(this.context))),
                 EmptyContext, << <<this.result.data, Context_new(this.context)>> >>)
    ELSE Outcome(TRUE, error(this.result.error), EmptyContext, <<>>)

ContextPipe_map(this, fn) ==
  IF this.result.tag = "Ok"
    THEN Outcome(TRUE, ok(CallFn(fn, this.result.data, Context_new(this.context))),
                 this.context, << <<this.result.data, Context_new(this.context)>> >>)
    ELSE Outcome(TRUE, error(this.result.error), this.context, <<>>)

\* flatMap, had the accessor shared the pipeline's mapping and set written
\* to it: a callback that calls ctx.set(key, value) changes what is carried.
ContextPipe_flatMap_shared(this, fn) ==
  IF this.result.tag = "Ok"
    THEN Outcome(TRUE, CallFn(fn, this.result.data, Context_new(this.context)),
                 IF fn.body = "fail"
                   THEN Context_getContext(Context_set(this.context, fn.key, this.result.data))
                   ELSE this.context,
                 << <<this.result.data, Context_new(this.context)>> >>)
    ELSE Outcome(TRUE, error(this.result.error), this.context, <<>>)

ContextPipe_flatMap(this, fn) ==
  IF this.result.tag = "Ok"
    THEN Outcome(TRUE, CallFn(fn, this.result.data, Context_new(this.context)),
                 this.context, << <<this.result.data, Context_new(this.context)>> >>)
    ELSE Outcome(TRUE, error(this.result.error), this.context, <<>>)

\* mapToResult, running the callback whatever the tag.
ContextPipe_mapToResult_eager(this, fn) ==
  IF this.result.tag = "Ok"
    THEN Outcome(TRUE, ok(CallFn(fn, this.result.data, Context_new(this.context))),
                 this.context, << <<this.result.data, Context_new(this.context)>> >>)
    ELSE Outcome(TRUE, error(this.result.error), this.context,
                 << <<this.result.error, Context_new(this.context)>> >>)

ContextPipe_mapToResult(this, fn) ==
  IF this.result.tag = "Ok"
    THEN Outcome(TRUE, ok(CallFn(fn, this.result.data, Context_new(this.context))),
                 this.context, << <<this.result.data, Context_new(this.context)>> >>)
    ELSE Outcome(TRUE, error(this.result.error), this.context, <<>>)

ContextPipe_unwrap(this) == Returned(this.result)

ContextPipe_getContext(this) == Returned(this.context)

\* ------------------------------------------------------------ the heap
\* A pipeline object. result and context are the fields of the class
\* (a ResultPipe has no context); by and fn are history: the function or
\* method that constructed the object, and the callback it was given.
Pipe(kind, result, context, by, fn) ==
  [kind |-> kind, result |-> result, context |-> context, by |-> by, fn |-> fn]

\* The record of the latest call: method, receiver, returned pipeline (0 for
\* a terminal operation), callback and its invocations, and what a terminal
\* operation returned or raised.
Call(op, recv, ret, fn, calls, done) ==
  [op |-> op, recv |-> recv, ret |-> ret, fn |-> fn, calls |-> calls,
   raised |-> done.raised, value |-> done.value, message |-> done.message]

\* The pipeline the previous call of the chain returned.
Tip == Len(heap)

IsResultPipe(p) == p \in DOMAIN heap /\ heap[p].kind = "ResultPipe"

IsContextPipe(p) == p \in DOMAIN heap /\ heap[p].kind = "ContextPipe"

\* How many objects a run of the given kind allocates.
Limit(kind) == IF kind = "ContextPipe" THEN MaxCtxPipes ELSE MaxPipes

\* A chain method called on receiver p with outcome o: allocate the pipeline
\* it constructs, or return the receiver.
Chain(op, p, fn, o) ==
  IF o.fresh
    THEN /\ Len(heap) < Limit(heap[p].kind)
         /\ heap' = Append(heap, Pipe(heap[p].kind, o.result, o.context, op, fn))
         /\ last' = Call(op, p, Len(heap) + 1, fn, o.calls, Returned(0))
    ELSE /\ heap' = [heap EXCEPT ![p].result = o.result, ![p].context = o.context]
         /\ last' = Call(op, p, p, fn, o.calls, Returned(0))

Terminal(op, p, done) ==
  /\ heap' = heap
  /\ last' = Call(op, p, 0, 0, <<>>, done)

\* The root of a chain, made by function op: new ResultPipe(result) or
\* new ContextPipe(result), whose context defaults to {}.
Create(kind, op, context) ==
  \E r \in Results :
    /\ heap = <<>>
    /\ heap' = <<Pipe(kind, r, context, "new", 0)>>
    /\ last' = Call(op, 0, 1, 0, <<>>, Returned(0))

Init ==
  /\ heap = <<>>
  /\ last = Call("none", 0, 0, 0, <<>>, Returned(0))

pipeResult == Create("ResultPipe", "pipeResult", NoContext)

pipeResultWithContext == Create("ContextPipe", "pipeResultWithContext", EmptyContext)

pipeWithContext == Create("ContextPipe", "pipeWithContext", EmptyContext)

Map ==
  \E fn \in MapFns :
    IsResultPipe(Tip) /\ Chain("map", Tip, fn, ResultPipe_map(heap[Tip], fn))

FlatMap ==
  \E fn \in FlatMapFns :
    IsResultPipe(Tip) /\ Chain("flatMap", Tip, fn, ResultPipe_flatMap(heap[Tip], fn))

MapToResult ==
  \E fn \in MapFns :
    IsResultPipe(Tip) /\ Chain("mapToResult", Tip, fn, ResultPipe_mapToResult(heap[Tip], fn))

MapError ==
  \E fn \in MapErrorFns :
    IsResultPipe(Tip) /\ Chain("mapError", Tip, fn, ResultPipe_mapError(heap[Tip], fn))

Tap ==
  \E fn \in MapFns :
    IsResultPipe(Tip) /\ Chain("tap", Tip, fn, ResultPipe_tap(heap[Tip], fn))

TapError ==
  \E fn \in TapErrorFns :
    IsResultPipe(Tip) /\ Chain("tapError", Tip, fn, ResultPipe_tapError(heap[Tip], fn))

Filter ==
  \E predicate \in Predicates, errorValue \in ErrRefs :
    /\ IsResultPipe(Tip)
    /\ Chain("filter", Tip, <<predicate, errorValue>>,
             ResultPipe_filter(heap[Tip], predicate, errorValue))

Recover ==
  \E fn \in RecoverFns :
    IsResultPipe(Tip) /\ Chain("recover", Tip, fn, ResultPipe_recover(heap[Tip], fn))

Unwrap ==
  IsResultPipe(Tip) /\ Terminal("unwrap", Tip, ResultPipe_unwrap(heap[Tip]))

UnwrapOr ==
  \E defaultValue \in Values :
    IsResultPipe(Tip) /\ Terminal("unwrapOr", Tip, ResultPipe_unwrapOr(heap[Tip], defaultValue))

UnwrapOrThrow ==
  IsResultPipe(Tip) /\ Terminal("unwrapOrThrow", Tip, ResultPipe_unwrapOrThrow(heap[Tip]))

SetContext ==
  \E fn \in SetContextFns :
    \* a callback can only return an accessor an earlier callback has kept
    /\ fn.body = "stale" => Tip >= 2
    /\ IsContextPipe(Tip) /\ Chain("setContext", Tip, fn, ContextPipe_setContext(heap[Tip], fn))

CtxMap ==
  \E fn \in CtxMapFns :
    IsContextPipe(Tip) /\ Chain("map", Tip, fn, ContextPipe_map(heap[Tip], fn))

CtxFlatMap ==
  \E fn \in CtxFlatMapFns :
    IsContextPipe(Tip) /\ Chain("flatMap", Tip, fn, ContextPipe_flatMap(heap[Tip], fn))

CtxMapToResult ==
  \E fn \in CtxMapFns :
    IsContextPipe(Tip) /\ Chain("mapToResult", Tip, fn, ContextPipe_mapToResult(heap[Tip], fn))

CtxUnwrap ==
  IsContextPipe(Tip) /\ Terminal("unwrap", Tip, ContextPipe_unwrap(heap[Tip]))

GetContext ==
  IsContextPipe(Tip) /\ Terminal("getContext", Tip, ContextPipe_getContext(heap[Tip]))

Next ==
  \/ pipeResult
  \/ pipeResultWithContext
  \/ pipeWithContext
  \/ Map
  \/ FlatMap
  \/ MapToResult
  \/ MapError
  \/ Tap
  \/ TapError
  \/ Filter
  \/ Recover
  \/ Unwrap
  \/ UnwrapOr
  \/ UnwrapOrThrow
  \/ SetContext
  \/ CtxMap
  \/ CtxFlatMap
  \/ CtxMapToResult
  \/ CtxUnwrap
  \/ GetContext

Spec == Init /\ [][Next]_vars

\* A run follows one chain, which is of one class: the behaviours of Spec
\* are those of the ResultPipe chains and those of the ContextPipe chains.
NextResultPipe ==
  \/ pipeResult
  \/ Map
  \/ FlatMap
  \/ MapToResult
  \/ MapError
  \/ Tap
  \/ TapError
  \/ Filter
  \/ Recover
  \/ Unwrap
  \/ UnwrapOr
  \/ UnwrapOrThrow

SpecResultPipe == Init /\ [][NextResultPipe]_vars

NextContextPipe ==
  \/ pipeResultWithContext
  \/ pipeWithContext
  \/ SetContext
  \/ CtxMap
  \/ CtxFlatMap
  \/ CtxMapToResult
  \/ CtxUnwrap
  \/ GetContext

SpecContextPipe == Init /\ [][NextContextPipe]_vars

\* ------------------------------------------------------ Context objects
\* The accessor as an object of its own: a callback may keep the Context it
\* was handed, call set on it any number of times and read any of the
\* Contexts it holds.  A Context object has the one field context.
Contexts == UNION {[S -> Values] : S \in SUBSET Keys}

IsContext(p) == p \in DOMAIN heap /\ heap[p].kind = "Context"

\* set, binding the key in the receiver's own mapping and returning the
\* receiver: this.context[key] = value; return this.
Context_set_inplace(this, key, value) ==
  Outcome(FALSE, this.result, Context_set(this.context, key, value), <<>>)

\* set as a method of the object this: it returns a new Context.
Context_set_call(this, key, value) ==
  Outcome(TRUE, this.result, Context_set(this.context, key, value), <<>>)

\* new Context(context), as a pipeline does before it calls a callback.
NewContext ==
  \E c \in Contexts :
    /\ heap = <<>>
    /\ heap' = <<Pipe("Context", "none", Context_new(c), "new", 0)>>
    /\ last' = Call("new", 0, 1, 0, <<>>, Returned(0))

ContextSet ==
  \E p \in DOMAIN heap, key \in Keys, value \in Values :
    IsContext(p) /\ Chain("set", p, <<key, value>>, Context_set_call(heap[p], key, value))

ContextGet ==
  \E p \in DOMAIN heap, key \in Keys :
    IsContext(p) /\ Terminal("get", p, Returned(Context_get(heap[p].context, key)))

ContextGetContext ==
  \E p \in DOMAIN heap :
    IsContext(p) /\ Terminal("getContext", p, Returned(Context_getContext(heap[p].context)))

NextContext ==
  \/ NewContext
  \/ ContextSet
  \/ ContextGet
  \/ ContextGetContext

SpecContext == Init /\ [][NextContext]_vars

\* -------------------------------------------------------- tagged values
\* JavaScript values of the three types the tag helpers meet, boxed so that
\* values of different types can be compared.
JsUndefined == [type |-> "undefined", str |-> "", num |-> 0]

JsString(s) == [type |-> "string", str |-> s, num |-> 0]

JsNumber(n) == [type |-> "number", str |-> "", num |-> n]

\* Tag labels: two payment methods of the example, and a label that is also
\* the name of a method every object inherits.
Labels == {"Check", "Cash", "toString"}

\* What the value parameter can hold: undefined when the argument is left
\* out (or is undefined itself), else the payload.
Payloads == {JsUndefined} \cup {JsNumber(n) : n \in Values}

\* { _tag, value }
Tagged(tag, value) == [_tag |-> tag, value |-> value]

\* createTagged, testing the payload for falsiness: if (!value).
createTagged_falsy(tag, value) ==
  IF value = JsUndefined \/ value = JsNumber(0)
    THEN Tagged(tag, JsString(tag))
    ELSE Tagged(tag, value)

createTagged(tag, value) ==
  IF value = JsUndefined
    THEN Tagged(tag, JsString(tag))
    ELSE Tagged(tag, value)

createTag(tag, value) ==
  IF value = JsUndefined
    THEN Tagged(tag, JsString(tag))
    ELSE Tagged(tag, value)

\* A handler map is an object literal with a handler under each of its own
\* keys; the handler under key k is written k.
HandlerMaps == UNION {[S -> S] : S \in SUBSET Labels}

Cases == {cases \in HandlerMaps : \A k \in DOMAIN cases : cases[k] = k}

\* The function-valued properties an object literal inherits under the
\* labels of the model; called on any object, toString returns
\* "[object Object]".
ObjectPrototype == {"toString"}

\* matchTag, calling every handler of the map.
matchTag_all(tagged, cases) ==
  LET RECURSIVE Each(_)
      Each(S) == IF S = {} THEN <<>>
                 ELSE LET k == CHOOSE x \in S : TRUE
                      IN <<<<cases[k], tagged>>>> \o Each(S \ {k})
  IN [calls |-> Each(DOMAIN cases), done |-> Returned(JsUndefined)]

\* cases[tagged._tag](tagged): the property is looked up on the handler map
\* and then on its prototype, and what is found is called; calling
\* undefined raises a TypeError.  Handlers return nothing.
matchTag(tagged, cases) ==
  IF tagged._tag \in DOMAIN cases
    THEN [calls |-> << <<cases[tagged._tag], tagged>> >>, done |-> Returned(JsUndefined)]
    ELSE IF tagged._tag \in ObjectPrototype
      THEN [calls |-> <<>>, done |-> Returned(JsString("[object Object]"))]
      ELSE [calls |-> <<>>, done |-> Raised("TypeError")]

\* A call of a factory: the tagged value it returns is a new object.
Construct(op, tag, value, tagged) ==
  /\ Len(heap) < MaxTagged
  /\ heap' = Append(heap, tagged)
  /\ last' = Call(op, 0, Len(heap) + 1, <<tag, value>>, <<>>, Returned(0))

CreateTagged ==
  \E tag \in Labels, value \in Payloads :
    Construct("createTagged", tag, value, createTagged(tag, value))

CreateTag ==
  \E tag \in Labels, value \in Payloads :
    Construct("createTag", tag, value, createTag(tag, value))

MatchTag ==
  \E p \in DOMAIN heap, cases \in Cases :
    LET o == matchTag(heap[p], cases)
    IN /\ heap' = heap
       /\ last' = Call("matchTag", p, 0, cases, o.calls, o.done)

NextTag ==
  \/ CreateTagged
  \/ CreateTag
  \/ MatchTag

SpecTag == Init /\ [][NextTag]_vars

\* ------------------------------------------------------------- packages
\* The package example.  A package value is a tagged value whose payload is
\* the package's identifier.
PackageIds == {"1", "2"}

PackageTags == {"UnshippedPackage", "ShippedPackage", "DeliveredPackage"}

PackageValues == {Tagged(t, id) : t \in PackageTags, id \in PackageIds}

createUnshippedPackage(id) == ok(Tagged("UnshippedPackage", id))

createShippedPackage(id) == ok(Tagged("ShippedPackage", id))

createDeliveredPackage(id) == ok(Tagged("DeliveredPackage", id))

\* tryShipPackage, with the test of the factory's result inverted.
tryShipPackage_inverted(pkg) ==
  LET shippedPackage == createShippedPackage(pkg.value)
  IN IF ~isError(shippedPackage)
       THEN error("UnableToShipPackage")
       ELSE ok(shippedPackage.data)

tryShipPackage(pkg) ==
  LET shippedPackage == createShippedPackage(pkg.value)
  IN IF isError(shippedPackage)
       THEN error("UnableToShipPackage")
       ELSE ok(shippedPackage.data)

tryDeliverPackage(pkg) ==
  LET deliveredPackage == createDeliveredPackage(pkg.value)
  IN IF isError(deliveredPackage)
       THEN error("UnableToDeliverPackage")
       ELSE ok(deliveredPackage.data)

\* A function that takes any value it is handed.
Accepts_any(op, pkg) == TRUE

\* The parameter types: ShipPackage takes an UnshippedPackage and
\* DeliverPackage a ShippedPackage; a call with another value does not
\* compile.
Accepts(op, pkg) ==
  CASE op = "tryShipPackage" -> pkg._tag = "UnshippedPackage"
    [] op = "tryDeliverPackage" -> pkg._tag = "ShippedPackage"

\* A package value as an object of the run: the tagged value, and as
\* history the function that made it and the object it was made from.
Package(tagged, by, from) ==
  [_tag |-> tagged._tag, value |-> tagged.value, by |-> by, from |-> from]

\* The objects a call returning result makes: its data, when it is Ok.
Made(result, by, from) ==
  IF isOk(result) THEN <<Package(result.data, by, from)>> ELSE <<>>

\* A call of op on object p (0 for none) with argument arg that makes the
\* objects made and returns result.
Produce(op, p, arg, made, calls, result) ==
  /\ Len(heap) + Len(made) <= MaxPackages
  /\ heap' = heap \o made
  /\ last' = Call(op, p, IF made = <<>> THEN 0 ELSE Len(heap) + Len(made),
                  arg, calls, Returned(result))

CreateUnshippedPackage ==
  \E id \in PackageIds :
    LET result == createUnshippedPackage(id)
    IN Produce("createUnshippedPackage", 0, id,
               Made(result, "createUnshippedPackage", 0), <<>>, result)

TryShipPackage ==
  \E p \in DOMAIN heap :
    LET pkg == Tagged(heap[p]._tag, heap[p].value)
        result == tryShipPackage(pkg)
    IN /\ Accepts("tryShipPackage", pkg)
       /\ Produce("tryShipPackage", p, pkg, Made(result, "tryShipPackage", p), <<>>, result)

TryDeliverPackage ==
  \E p \in DOMAIN heap :
    LET pkg == Tagged(heap[p]._tag, heap[p].value)
        result == tryDeliverPackage(pkg)
    IN /\ Accepts("tryDeliverPackage", pkg)
       /\ Produce("tryDeliverPackage", p, pkg, Made(result, "tryDeliverPackage", p), <<>>, result)

\* deliveryPipeExamples: pipeResult(createUnshippedPackage(id))
\*   .flatMap(tryShipPackage).flatMap(tryDeliverPackage).unwrap(),
\* the example's id "1" being any id.  The values the pipeline passes from
\* link to link are held by nothing else; the record of the call keeps
\* what the callbacks were called with and what unwrap returned.
DeliveryPipeExamples ==
  \E id \in PackageIds :
    LET created == createUnshippedPackage(id)
        root == Pipe("ResultPipe", created, NoContext, "new", 0)
        shipped == ResultPipe_flatMap(root, [pkg \in PackageValues |-> tryShipPackage(pkg)])
        second == Pipe("ResultPipe", shipped.result, NoContext, "flatMap", 0)
        delivered == ResultPipe_flatMap(second, [pkg \in PackageValues |-> tryDeliverPackage(pkg)])
        third == Pipe("ResultPipe", delivered.result, NoContext, "flatMap", 0)
        result == ResultPipe_unwrap(third).value
    IN Produce("deliveryPipeExamples", 0, id, <<>>, shipped.calls \o delivered.calls, result)

NextPackage ==
  \/ CreateUnshippedPackage
  \/ TryShipPackage
  \/ TryDeliverPackage
  \/ DeliveryPipeExamples

SpecPackage == Init /\ [][NextPackage]_vars

\* ---------------------------------------------------------------- carts
\* The cart example, which the repository holds twice: in cart-example.ts
\* the id, name and price of an item are tagged values made by createTag,
\* in the other module they are the string and the numbers of the payload.
CartModules == {"cart-example", "part_003"}

ItemIds == {"1", "2"}

\* Bounds of tryCreateStr100 and tryCreatePrice.
MaxStr100 == 100

MinPrice == 0

MaxPrice == 1000000

\* The id of an item: a string, equal to every string of the same
\* characters, or the object createTag("ID", s) returned on call ref, equal
\* to itself only.
IdString(s) == [type |-> "string", str |-> s, ref |-> 0]

IdObject(s, ref) == [type |-> "object", str |-> s, ref |-> ref]

\* a === b
StrictEquals(a, b) == a = b

\* What tryCreateItem and createItem are called with; name is the length
\* of the name.  The first two are the items of the pipe example.
CartPayloads ==
  { [id |-> "1", name |-> 6, price |-> 999],
    [id |-> "2", name |-> 5, price |-> 25],
    [id |-> "2", name |-> 101, price |-> 25],
    [id |-> "1", name |-> 6, price |-> -1],
    [id |-> "2", name |-> 5, price |-> 1000001] }

tryCreateStr100(str) ==
  IF str > MaxStr100 THEN error("StringTooLong") ELSE ok(Tagged("Str100", str))

tryCreatePrice(price) ==
  IF price < MinPrice THEN error("PriceTooLow")
  ELSE IF price > MaxPrice THEN error("PriceTooHigh")
  ELSE ok(Tagged("Price", price))

\* tryCreateItem on its call ref: the ID object it makes is a new one.
tryCreateItem(payload, ref) ==
  LET name == tryCreateStr100(payload.name)
      price == tryCreatePrice(payload.price)
  IN IF isError(name) THEN name
     ELSE IF isError(price) THEN price
     ELSE ok(Tagged("Item", [id |-> IdObject(payload.id, ref),
                             name |-> Tagged("Str100", payload.name),
                             price |-> Tagged("Price", payload.price)]))

createItem(payload) ==
  ok(Tagged("Item", [id |-> IdString(payload.id), name |-> payload.name,
                     price |-> payload.price]))

createEmptyCart == ok(Tagged("EmptyCart", <<>>))

createActiveCart(items) == ok(Tagged("ActiveCart", items))

createPaidCart(items) == ok(Tagged("PaidCart", items))

\* cart.value.some((i) => i.value.id === item.value.id)
HasItem(cart, item) ==
  \E n \in 1..Len(cart.value) : StrictEquals(cart.value[n].value.id, item.value.id)

tryAddToCart(cart, item) ==
  IF cart._tag = "EmptyCart" THEN createActiveCart(<<item>>)
  ELSE IF HasItem(cart, item) THEN error("ItemAlreadyInCart")
  ELSE ok([cart EXCEPT !.value = Append(cart.value, item)])

addToCart(cart, item) ==
  IF cart._tag = "EmptyCart" THEN createActiveCart(<<item>>)
  ELSE IF HasItem(cart, item) THEN error("ItemAlreadyInCart")
  ELSE ok([cart EXCEPT !.value = Append(cart.value, item)])

\* tryRemoveFromCart, returning an ActiveCart whatever is left.
tryRemoveFromCart_unchecked(cart, itemId) ==
  createActiveCart(SelectSeq(cart.value, LAMBDA i : i.value.id.str # itemId))

\* filter((i) => i.value.id.value !== itemId)
tryRemoveFromCart(cart, itemId) ==
  LET items == SelectSeq(cart.value, LAMBDA i : i.value.id.str # itemId)
  IN IF Len(items) = 0 THEN createEmptyCart ELSE createActiveCart(items)

\* filter((i) => i.value.id !== itemId)
removeFromCart(cart, itemId) ==
  LET items == SelectSeq(cart.value, LAMBDA i : ~StrictEquals(i.value.id, IdString(itemId)))
  IN IF Len(items) = 0 THEN createEmptyCart ELSE createActiveCart(items)

\* tryPayForCart, calling the factory without the items: its parameter
\* defaults to [].
tryPayForCart_empty(cart) == createPaidCart(<<>>)

tryPayForCart(cart) == createPaidCart(cart.value)

payForCart(cart) == createPaidCart(cart.value)

\* `Handled: ${error}`
Handled(e) ==
  CASE e = "ItemAlreadyInCart" -> "Handled: ItemAlreadyInCart"
    [] e = "EmptyCart" -> "Handled: EmptyCart"
    [] e = "StringTooLong" -> "Handled: StringTooLong"
    [] e = "PriceTooLow" -> "Handled: PriceTooLow"
    [] e = "PriceTooHigh" -> "Handled: PriceTooHigh"

CartErrors == {"ItemAlreadyInCart", "EmptyCart", "StringTooLong", "PriceTooLow", "PriceTooHigh"}

\* The parameter types: AddToCart takes an EmptyCart or an ActiveCart,
\* RemoveFromCart an ActiveCart, and the pay callback of the pipeline what
\* RemoveFromCart returns, an ActiveCart or an EmptyCart.
CartAccepts(step, cart) ==
  CASE step = "add" -> cart._tag \in {"EmptyCart", "ActiveCart"}
    [] step = "addHeld" -> cart._tag \in {"EmptyCart", "ActiveCart"}
    [] step = "remove" -> cart._tag = "ActiveCart"
    [] step = "pay" -> cart._tag \in {"EmptyCart", "ActiveCart"}

\* The callbacks of the pipe example (cartPipeExample), in module m.
\* add: make an item from the payload and add it to the cart.
AddCallback(m, payload, ref, cart) ==
  LET item == IF m = "cart-example" THEN tryCreateItem(payload, ref) ELSE createItem(payload)
  IN IF isError(item) THEN item
     ELSE IF m = "cart-example" THEN tryAddToCart(cart, item.data)
     ELSE addToCart(cart, item.data)

\* addHeld: add an item made before, as cartExamples does.
AddHeldCallback(m, item, cart) ==
  IF m = "cart-example" THEN tryAddToCart(cart, item) ELSE addToCart(cart, item)

RemoveCallback(m, itemId, cart) ==
  LET removeFromCartResult ==
        IF m = "cart-example" THEN tryRemoveFromCart(cart, itemId)
        ELSE removeFromCart(cart, itemId)
  IN removeFromCartResult

PayCallback(m, cart) ==
  IF cart._tag = "EmptyCart" THEN error("EmptyCart")
  ELSE IF m = "cart-example" THEN tryPayForCart(cart)
  ELSE payForCart(cart)

\* A link of the cart pipeline was made by the step [step, arg]: its name
\* and the payload, item or id its callback uses.
Step(name, arg) == [step |-> name, arg |-> arg]

\* The module the pipeline of the run is written in.
CartModule == heap[1].fn

\* The item objects a callback can hold: those of the carts so far.
ItemsHeld ==
  UNION {{heap[p].result.data.value[n] : n \in 1..Len(heap[p].result.data.value)} :
           p \in {q \in DOMAIN heap : isOk(heap[q].result)}}

\* pipeResult(createEmptyCart())
CartPipe ==
  \E m \in CartModules :
    /\ heap = <<>>
    /\ heap' = <<Pipe("ResultPipe", createEmptyCart, NoContext, "new", m)>>
    /\ last' = Call("pipeResult", 0, 1, m, <<>>, Returned(0))

\* The carts the callback of the next link can be called with.
CartsAtTip == IF isOk(heap[Tip].result) THEN {heap[Tip].result.data} ELSE {}

\* .flatMap(fn) on the last link, fn being the callback of the step.
CartStep(step, fn) ==
  LET this == heap[Tip]
      o == ResultPipe_flatMap(this, fn)
  IN /\ isOk(this.result) => CartAccepts(step.step, this.result.data)
     /\ Len(heap) < MaxCartPipes
     /\ heap' = Append(heap, Pipe("ResultPipe", o.result, NoContext, "flatMap", step))
     /\ last' = Call("flatMap", Tip, Len(heap) + 1, step, o.calls, Returned(0))

AddStep ==
  \E payload \in CartPayloads :
    /\ heap # <<>>
    /\ CartStep(Step("add", payload),
                [cart \in CartsAtTip |-> AddCallback(CartModule, payload, Len(heap) + 1, cart)])

AddHeldStep ==
  \E item \in ItemsHeld :
    /\ heap # <<>>
    /\ CartStep(Step("addHeld", item),
                [cart \in CartsAtTip |-> AddHeldCallback(CartModule, item, cart)])

RemoveStep ==
  \E itemId \in ItemIds :
    /\ heap # <<>>
    /\ CartStep(Step("remove", itemId),
                [cart \in CartsAtTip |-> RemoveCallback(CartModule, itemId, cart)])

PayStep ==
  /\ heap # <<>>
  /\ CartStep(Step("pay", ""), [cart \in CartsAtTip |-> PayCallback(CartModule, cart)])

\* cartPipeExamples: .tapError(log).mapError(Handled) on the last link, and
\* unwrap() of what they return.
CartPipeExamples ==
  /\ heap # <<>>
  /\ LET tapped == ResultPipe_tapError(heap[Tip], [e \in CartErrors |-> 0])
         logged == Pipe("ResultPipe", tapped.result, NoContext, "tapError", 0)
         mapped == ResultPipe_mapError(logged, [e \in CartErrors |-> Handled(e)])
         handled == Pipe("ResultPipe", mapped.result, NoContext, "mapError", 0)
     IN /\ heap' = heap
        /\ last' = Call("cartPipeExamples", Tip, 0, 0, tapped.calls \o mapped.calls,
                        ResultPipe_unwrap(handled))

NextCart ==
  \/ CartPipe
  \/ AddStep
  \/ AddHeldStep
  \/ RemoveStep
  \/ PayStep
  \/ CartPipeExamples

SpecCart == Init /\ [][NextCart]_vars

\* ------------------------------------------------------------- properties
\* The latest call was made on a ResultPipe (a ContextPipe).
OnResultPipe == IsResultPipe(last.recv)

OnContextPipe == IsContextPipe(last.recv)

HoldsError(p) == heap[p].result.tag = "Error"

HoldsOk(p) == heap[p].result.tag = "Ok"

\* In a chain, link j was constructed by its method from link j - 1; tap and
\* tapError construct nothing.
NoRecoverBetween(a, b) == \A j \in (a + 1)..b : heap[j].by # "recover"

SuccessOps == {"map", "flatMap", "filter", "tap"}

ErrorOps == {"tapError", "mapError", "recover"}

ResultPipeOps ==
  {"map", "mapToResult", "flatMap", "mapError", "tap", "tapError", "filter", "recover"}

ContextPipeOps == {"setContext", "map", "mapToResult", "flatMap"}

\* Only tapError, mapError and recover run their callback on an Error
\* payload, and they are handed that payload.
OnlyErrorOpsSeeError ==
  (OnResultPipe /\ last.op \in ResultPipeOps /\ HoldsError(last.recv) /\ last.calls # <<>>)
    => (last.op \in ErrorOps /\ last.calls = << <<heap[last.recv].result.error>> >>)

\* C1 as stated: once some link of a ResultPipe chain holds Error, no later
\* map, flatMap, filter or tap link of the chain invokes its callback,
\* whatever links lie in between; only tapError, mapError and recover
\* callbacks run on the Error payload.
C1_ShortCircuitForever ==
  /\ (OnResultPipe /\ last.op \in SuccessOps /\ \E a \in 1..last.recv : HoldsError(a))
       => last.calls = <<>>
  /\ OnlyErrorOpsSeeError

\* C1 amended: once some link of a ResultPipe chain holds Error, no later
\* map, flatMap, filter or tap link invokes its callback, however many links
\* follow, unless a recover link lies in between (recover turns the chain
\* back to Ok); only tapError, mapError and recover callbacks run on the
\* Error payload.
C1_ShortCircuit ==
  /\ (OnResultPipe /\ last.op \in SuccessOps
        /\ \E a \in 1..last.recv : HoldsError(a) /\ NoRecoverBetween(a, last.recv))
       => last.calls = <<>>
  /\ OnlyErrorOpsSeeError

\* An Error link, two links after it, and a success-path method that skips
\* its callback.
C1_Witness ==
  /\ OnResultPipe /\ last.op \in SuccessOps /\ last.recv >= 3
  /\ HoldsError(1) /\ NoRecoverBetween(1, last.recv)
  /\ last.calls = <<>>

PassOps == {"map", "mapToResult", "flatMap", "filter"}

\* C2: along a chain of map, mapToResult, flatMap, filter, tap and tapError
\* links that starts at a ResultPipe holding Error(e), unwrap() of every
\* link is an Error whose error value is the very reference e.  (tap and
\* tapError return their receiver, so the links the others construct are
\* all the links there are.)
C2_ErrorPropagates ==
  \A a \in DOMAIN heap, b \in DOMAIN heap :
    (/\ a <= b
     /\ IsResultPipe(a) /\ HoldsError(a)
     /\ \A j \in (a + 1)..b : heap[j].by \in PassOps)
      => ResultPipe_unwrap(heap[b]).value = error(heap[a].result.error)

\* An Error holding object 2 went through a flatMap and through a filter
\* that was given another error value.
C2_Witness ==
  /\ Len(heap) = 3 /\ IsResultPipe(1) /\ heap[1].result = error(2)
  /\ heap[2].by = "flatMap" /\ heap[3].by = "filter" /\ heap[3].fn[2] # 2
  /\ last.op = "tapError" /\ last.recv = 3
  /\ heap[3].result = error(2)

\* C3: no pipeline operation mutates its receiver or any other pipeline:
\* across every call, unwrap() and getContext() of every pipeline that
\* existed before the call return what they returned before it.
C3_ReceiverUnchanged ==
  [][\A p \in DOMAIN heap :
       /\ p \in DOMAIN heap'
       /\ IF heap[p].kind = "ResultPipe"
            THEN ResultPipe_unwrap(heap'[p]) = ResultPipe_unwrap(heap[p])
            ELSE /\ ContextPipe_unwrap(heap'[p]) = ContextPipe_unwrap(heap[p])
                 /\ ContextPipe_getContext(heap'[p]) = ContextPipe_getContext(heap[p])]_vars

\* setContext returned a pipeline that carries another context than its
\* receiver still does.
C3_Witness ==
  /\ OnContextPipe /\ last.op = "setContext"
  /\ heap[last.ret].context # heap[last.recv].context
  /\ heap[last.recv].context = EmptyContext

C5_FlatMapOk ==
  (OnResultPipe /\ last.op = "flatMap" /\ HoldsOk(last.recv))
    => LET v == heap[last.recv].result.data
       IN /\ last.calls = << <<v>> >>
          /\ ResultPipe_unwrap(heap[last.ret]).value = last.fn[v]

\* flatMap on Ok(v) with an f that fails on v: the chain now holds f's Error.
C5_Witness ==
  /\ OnResultPipe /\ last.op = "flatMap" /\ HoldsOk(last.recv)
  /\ last.fn[heap[last.recv].result.data].tag = "Error"
  /\ heap[last.ret].result = last.fn[heap[last.recv].result.data]

\* C6: map fusion.  For every ResultPipe p, Ok or Error, and all callbacks f
\* and g, p.map(f).map(g).unwrap() equals p.map(x => g(f(x))).unwrap().
\* (The receiver of the second map is link last.recv, made by map(f) from
\* the link before it.)
C6_MapFusion ==
  (OnResultPipe /\ last.op = "map" /\ last.recv >= 2 /\ heap[last.recv].by = "map")
    => LET p == heap[last.recv - 1]
           f == heap[last.recv].fn
           g == last.fn
           fused == ResultPipe_map(p, [x \in Values |-> g[f[x]]])
       IN ResultPipe_unwrap(heap[last.ret]) = ResultPipe_unwrap([result |-> fused.result])

\* Two maps that both change the value, applied to an Ok pipeline.
C6_Witness ==
  /\ OnResultPipe /\ last.op = "map" /\ last.recv = 2 /\ heap[2].by = "map"
  /\ HoldsOk(1) /\ heap[2].fn = Succ /\ last.fn = Succ
  /\ heap[3].result = ok(Succ[Succ[heap[1].result.data]])

\* C7: recover(f) on a ResultPipe holding Error(e) returns a pipeline
\* holding Ok(f(e)); on one holding Ok(v) it returns a pipeline holding
\* Ok(v) and does not call f; so the pipeline it returns always holds Ok.
C7_Recover ==
  (OnResultPipe /\ last.op = "recover")
    => /\ HoldsError(last.recv) =>
            /\ heap[last.ret].result = ok(last.fn[heap[last.recv].result.error])
            /\ last.calls = << <<heap[last.recv].result.error>> >>
       /\ HoldsOk(last.recv) =>
            /\ heap[last.ret].result = ok(heap[last.recv].result.data)
            /\ last.calls = <<>>
       /\ HoldsOk(last.ret)

\* recover turned an Error into Ok(f(e)), with f(e) other than 0.
C7_Witness ==
  /\ OnResultPipe /\ last.op = "recover" /\ HoldsError(last.recv)
  /\ last.fn[heap[last.recv].result.error] # 0
  /\ heap[last.ret].result = ok(last.fn[heap[last.recv].result.error])

\* C8: filter(pred, e) on a ResultPipe holding Ok(v) returns a pipeline
\* holding Ok(v) when pred(v) is true and Error(e) when it is false; on one
\* holding Error(e0) it returns a pipeline holding Error(e0), not Error(e),
\* and does not evaluate pred.
C8_Filter ==
  (OnResultPipe /\ last.op = "filter")
    => LET pred == last.fn[1]
           e == last.fn[2]
           r == heap[last.recv].result
       IN /\ (r.tag = "Ok" /\ pred[r.data]) => heap[last.ret].result = ok(r.data)
          /\ (r.tag = "Ok" /\ ~pred[r.data]) => heap[last.ret].result = error(e)
          /\ r.tag = "Ok" => last.calls = << <<r.data>> >>
          /\ r.tag = "Error" =>
               /\ heap[last.ret].result = error(r.error)
               /\ last.calls = <<>>

\* filter on Error(e0), given an error value other than e0.
C8_Witness ==
  /\ OnResultPipe /\ last.op = "filter" /\ HoldsError(last.recv)
  /\ last.fn[2] # heap[last.recv].result.error
  /\ heap[last.ret].result = error(heap[last.recv].result.error)

\* filter on Ok(v) with a predicate that v fails.
C8_WitnessRejected ==
  /\ OnResultPipe /\ last.op = "filter" /\ HoldsOk(last.recv)
  /\ ~last.fn[1][heap[last.recv].result.data]
  /\ heap[last.ret].result = error(last.fn[2])

\* C9: tap(f) invokes f exactly once, with the data, when the pipeline holds
\* Ok, and never when it holds Error; tapError(f) invokes f exactly once,
\* with the error, when it holds Error, and never when it holds Ok; in all
\* four cases the Result wrapped by the returned pipeline is the one the
\* receiver wrapped before the call, whatever f returns.
C9_TapFrame ==
  [][(last'.op \in {"tap", "tapError"}) =>
       LET r == heap[last'.recv].result
       IN /\ heap'[last'.ret].result = r
          /\ last'.calls =
               IF last'.op = "tap"
                 THEN (IF r.tag = "Ok" THEN << <<r.data>> >> ELSE <<>>)
                 ELSE (IF r.tag = "Error" THEN << <<r.error>> >> ELSE <<>>)]_vars

\* tap ran a callback that returns another value than the data, and the
\* pipeline still holds the data.
C9_Witness ==
  /\ OnResultPipe /\ last.op = "tap" /\ HoldsOk(last.recv)
  /\ last.fn[heap[last.recv].result.data] # heap[last.recv].result.data
  /\ last.calls = << <<heap[last.recv].result.data>> >>
  /\ heap[last.ret].result = ok(heap[last.recv].result.data)

\* C10: unwrapOrThrow() returns the data when the pipeline holds Ok(data)
\* and raises a fault whose message is String(e) when it holds Error(e); no
\* other ResultPipe operation raises (callbacks being total): unwrap()
\* returns the wrapped Result and unwrapOr(d) the data or d.
C10_UnwrapOrThrow ==
  /\ (OnResultPipe /\ last.op = "unwrapOrThrow") =>
       LET r == heap[last.recv].result
       IN /\ r.tag = "Ok" => (~last.raised /\ last.value = r.data)
          /\ r.tag = "Error" => (last.raised /\ last.message = String(r.error))
  /\ (OnResultPipe /\ last.raised) => last.op = "unwrapOrThrow"
  /\ (OnResultPipe /\ last.op = "unwrap") =>
       (~last.raised /\ last.value = heap[last.recv].result)
  /\ (OnResultPipe /\ last.op = "unwrapOr") =>
       (~last.raised /\ (HoldsOk(last.recv) => last.value = heap[last.recv].result.data))

\* unwrapOrThrow on an Error that holds an object raised "[object Object]".
C10_Witness ==
  /\ OnResultPipe /\ last.op = "unwrapOrThrow" /\ HoldsError(last.recv)
  /\ heap[last.recv].result.error # 1
  /\ last.raised /\ last.message = "[object Object]"

\* Link a of a ContextPipe chain was made by setContext with the callback
\* (value, ctx) => ctx.set(k, value), which ran: it stored the data of the
\* link before under k.
Stores(a, k) ==
  /\ a >= 2 /\ IsContextPipe(a)
  /\ heap[a].by = "setContext" /\ heap[a].fn = Closure("set", k)
  /\ HoldsOk(a - 1)

\* Every setContext link after a, up to b, returns its accessor or sets
\* another key than k on it.
SetsOtherKeys(a, b, k) ==
  \A j \in (a + 1)..b :
    heap[j].by = "setContext" =>
      \/ heap[j].fn.body = "keep"
      \/ heap[j].fn.body = "set" /\ heap[j].fn.key # k

C12_AppendOnlyAnyCallback ==
  \A a \in DOMAIN heap, b \in DOMAIN heap :
    (a <= b /\ IsContextPipe(a))
      => DOMAIN heap[a].context \subseteq DOMAIN heap[b].context

\* Every setContext callback between a and b returned the accessor it was
\* handed or the result of set calls on it.
BuildsOnAccessor(a, b) ==
  \A j \in (a + 1)..b :
    heap[j].by = "setContext" => heap[j].fn.body \in {"set", "keep"}

\* C12 amended: along a ContextPipe chain whose setContext callbacks return
\* the accessor they are handed or a Context obtained from it by set calls,
\* the keys of a link's context contain the keys of every earlier link's
\* context (a callback that returns another Context, such as an accessor
\* kept from an earlier link, replaces the carried context by it).
C12_AppendOnly ==
  \A a \in DOMAIN heap, b \in DOMAIN heap :
    (a <= b /\ IsContextPipe(a) /\ BuildsOnAccessor(a, b))
      => DOMAIN heap[a].context \subseteq DOMAIN heap[b].context

\* Two keys stored one after the other, and a map after them: the last link
\* carries both.
C12_Witness ==
  /\ Len(heap) = 4 /\ Stores(2, "card") /\ Stores(3, "amount")
  /\ heap[4].by = "map"
  /\ DOMAIN heap[2].context = {"card"}
  /\ DOMAIN heap[4].context = {"amount", "card"}

\* C14: setContext(f) on a ContextPipe holding Ok(v) calls f once, with v
\* and an accessor over the carried context, and returns a pipeline that
\* carries the mapping of the Context f returned and still wraps Ok(v); on
\* a pipeline holding Error it does not call f and returns a pipeline with
\* the same context and error.
C14_SetContext ==
  (OnContextPipe /\ last.op = "setContext")
    => LET this == heap[last.recv]
           new == heap[last.ret]
       IN /\ this.result.tag = "Ok" =>
               /\ last.calls = << <<this.result.data, this.context>> >>
               /\ new.context = Context_getContext(CallFn(last.fn, this.result.data, this.context))
               /\ new.result = ok(this.result.data)
          /\ this.result.tag = "Error" =>
               /\ last.calls = <<>>
               /\ new.context = this.context
               /\ new.result = error(this.result.error)

\* setContext on Ok(1) added "card" to a context that held "amount".
C14_Witness ==
  /\ OnContextPipe /\ last.op = "setContext" /\ last.fn = Closure("set", "card")
  /\ heap[last.recv].result = ok(1)
  /\ DOMAIN heap[last.recv].context = {"amount"}
  /\ heap[last.ret].context = [k \in {"amount", "card"} |->
                                 IF k = "card" THEN 1 ELSE heap[last.recv].context[k]]
  /\ heap[last.ret].result = ok(1)

\* C15: once a link of a ContextPipe chain holds Error(e), every later link
\* of the chain holds Error with the same reference e and carries the
\* context accumulated before the error, and no setContext, map,
\* mapToResult or flatMap callback is invoked.
C15_ContextShortCircuit ==
  /\ \A a \in DOMAIN heap, b \in DOMAIN heap :
       (a <= b /\ IsContextPipe(a) /\ HoldsError(a))
         => /\ ContextPipe_unwrap(heap[b]).value = error(heap[a].result.error)
            /\ ContextPipe_getContext(heap[b]).value = heap[a].context
  /\ (OnContextPipe /\ last.op \in ContextPipeOps
        /\ \E a \in 1..last.recv : HoldsError(a))
       => last.calls = <<>>

\* A flatMap failed after a key was stored; two links later the chain still
\* holds that error and that context, and the last callback did not run.
C15_Witness ==
  /\ Len(heap) = 4 /\ Stores(2, "amount") /\ HoldsError(3) /\ heap[3].by = "flatMap"
  /\ last.op = "setContext" /\ last.recv = 3 /\ last.fn = Closure("set", "card")
  /\ last.calls = <<>>
  /\ heap[4].result = heap[3].result
  /\ DOMAIN heap[4].context = {"amount"}

\* C13: Context.set(key, value) returns a new Context whose mapping is the
\* receiver's mapping with key bound to value (added when absent, replaced
\* when present), and leaves the receiver, and every other Context, as it
\* was.
C13_ContextSet ==
  [][(last'.op = "set" /\ IsContext(last'.recv))
       => LET this == heap[last'.recv]
              key == last'.fn[1]
              value == last'.fn[2]
          IN /\ last'.ret \notin DOMAIN heap
             /\ DOMAIN heap'[last'.ret].context = DOMAIN this.context \cup {key}
             /\ heap'[last'.ret].context[key] = value
             /\ \A k \in DOMAIN this.context \ {key} :
                  heap'[last'.ret].context[k] = this.context[k]
             /\ \A p \in DOMAIN heap : heap'[p].context = heap[p].context]_vars

\* set replaced the value of a key the receiver has, and the receiver still
\* reads the old value.
C13_Witness ==
  /\ last.op = "set" /\ IsContext(last.recv) /\ last.ret # last.recv
  /\ last.fn = <<"amount", 1>>
  /\ heap[last.recv].context = [k \in Keys |-> 0]
  /\ Context_get(heap[last.ret].context, "amount") = 1
  /\ Context_get(heap[last.ret].context, "card") = 0
  /\ Context_get(heap[last.recv].context, "amount") = 0

\* C16: createTagged(tag, value?) and createTag(tag, value?) always return,
\* the value they return has the discriminant tag, its payload is the tag
\* label when the payload is left out and is the payload given otherwise.
C16_CreateTagged ==
  last.op \in {"createTagged", "createTag"}
    => LET tag == last.fn[1]
           value == last.fn[2]
           tagged == heap[last.ret]
       IN /\ ~last.raised
          /\ tagged._tag = tag
          /\ value = JsUndefined => tagged.value = JsString(tag)
          /\ value # JsUndefined => tagged.value = value

\* createTagged was given the payload 0 and kept it.
C16_Witness ==
  /\ last.op = "createTagged" /\ last.fn = <<"Check", JsNumber(0)>>
  /\ heap[last.ret] = Tagged("Check", JsNumber(0))
  /\ \E p \in DOMAIN heap : heap[p] = Tagged("Cash", JsString("Cash"))

\* C17: matchTag(tagged, cases) with a handler map that has a handler under
\* tagged's discriminant (as a map covering every declared discriminant
\* has) invokes one handler, once: the one under that discriminant, with
\* the tagged value itself; and it returns.  The tagged values are those
\* createTagged and createTag make.
C17_MatchTag ==
  (last.op = "matchTag" /\ heap[last.recv]._tag \in DOMAIN last.fn)
    => /\ last.calls = << <<heap[last.recv]._tag, heap[last.recv]>> >>
       /\ ~last.raised

\* A Check among handlers for all labels: only the Check handler ran.
C17_Witness ==
  /\ last.op = "matchTag" /\ DOMAIN last.fn = Labels
  /\ heap[last.recv] = Tagged("Check", JsNumber(1))
  /\ Len(last.calls) = 1 /\ last.calls[1][1] = "Check"

\* C18 as stated: matchTag with a handler map that has no handler under
\* tagged's discriminant ends in an error and invokes no handler.
C18_MissingCaseRaises ==
  (last.op = "matchTag" /\ heap[last.recv]._tag \notin DOMAIN last.fn)
    => /\ last.raised
       /\ last.calls = <<>>

\* C19: the pipeline that creates an unshipped package with an id (the
\* example's "1"), ships it and delivers it unwraps to Ok of a
\* DeliveredPackage with that id, having called each transition once; and
\* each transition, in the pipeline or called directly, makes a new tagged
\* value with the identifier of its input, which stays as it was.
C19_PackageLifecycle ==
  /\ last.op = "deliveryPipeExamples"
       => /\ last.value.tag = "Ok"
          /\ last.value.data = Tagged("DeliveredPackage", last.fn)
          /\ last.calls = << <<Tagged("UnshippedPackage", last.fn)>>,
                             <<Tagged("ShippedPackage", last.fn)>> >>
  /\ \A p \in DOMAIN heap :
       heap[p].by \in {"tryShipPackage", "tryDeliverPackage"}
         => /\ heap[p].from \in 1..(p - 1)
            /\ heap[p].value = heap[heap[p].from].value
            /\ heap[p]._tag # heap[heap[p].from]._tag

\* The example itself: id "1", delivered.
C19_Witness ==
  /\ last.op = "deliveryPipeExamples" /\ last.fn = "1"
  /\ last.value = ok(Tagged("DeliveredPackage", "1"))
  /\ \E p \in DOMAIN heap :
       /\ heap[p].by = "tryDeliverPackage" /\ heap[p].value = "2"
       /\ heap[heap[p].from]._tag = "ShippedPackage"

\* Object p was made by shipping (delivering) object q.
ShippedFrom(p, q) == heap[p].by = "tryShipPackage" /\ heap[p].from = q

DeliveredFrom(p, q) == heap[p].by = "tryDeliverPackage" /\ heap[p].from = q

\* Package values move forward only: what ship takes is an
\* UnshippedPackage and what it makes a ShippedPackage, what deliver takes
\* is a ShippedPackage that ship made and what it makes a DeliveredPackage,
\* and the value taken keeps its tag.
ForwardOnly ==
  \A p \in DOMAIN heap, q \in DOMAIN heap :
    /\ ShippedFrom(p, q)
         => /\ heap[q]._tag = "UnshippedPackage"
            /\ heap[q].by = "createUnshippedPackage"
            /\ heap[p]._tag = "ShippedPackage"
    /\ DeliveredFrom(p, q)
         => /\ heap[q]._tag = "ShippedPackage"
            /\ heap[q].by = "tryShipPackage"
            /\ heap[p]._tag = "DeliveredPackage"

C24_OnlySetContextChangesContext ==
  /\ (OnContextPipe /\ last.op \in {"map", "mapToResult", "flatMap"})
       => /\ heap[last.ret].context = heap[last.recv].context
          /\ last.calls # <<>> => last.calls[1][2] = heap[last.recv].context
  /\ \A p \in DOMAIN heap :
       (p >= 2 /\ IsContextPipe(p) /\ heap[p].context # heap[p - 1].context)
         => heap[p].by = "setContext"

\* After "amount" was stored, a map whose callback calls ctx.set("card", _)
\* and a flatMap whose callback calls it and returns an Error: the last
\* link holds the Error and carries "amount" only.
C24_Witness ==
  /\ Len(heap) = 4 /\ Stores(2, "amount")
  /\ heap[3].by = "map" /\ heap[3].fn = Closure("drop", "card")
  /\ last.op = "flatMap" /\ last.recv = 3 /\ last.fn = Closure("fail", "card")
  /\ Len(last.calls) = 1
  /\ HoldsError(4)
  /\ DOMAIN heap[4].context = {"amount"}
  /\ heap[4].context = heap[2].context

\* Link p of the cart pipeline was made by the step of this name.
IsStep(p, name) == p \in DOMAIN heap /\ p >= 2 /\ heap[p].fn.step = name

\* Link p holds Ok of a cart with this tag.
HoldsCart(p, tag) == isOk(heap[p].result) /\ heap[p].result.data._tag = tag

\* The ids of the items of a cart, in order.
ItemIdsOf(cart) == [n \in 1..Len(cart.value) |-> cart.value[n].value.id.str]

\* The pipeline is the one of the example: an empty cart, item "1" added,
\* item "2" added, item "1" removed, paid, and cartPipeExamples called.
IsCartPipeExample ==
  /\ Len(heap) = 5
  /\ IsStep(2, "add") /\ heap[2].fn.arg = [id |-> "1", name |-> 6, price |-> 999]
  /\ IsStep(3, "add") /\ heap[3].fn.arg = [id |-> "2", name |-> 5, price |-> 25]
  /\ IsStep(4, "remove") /\ heap[4].fn.arg = "1"
  /\ IsStep(5, "pay")
  /\ last.op = "cartPipeExamples" /\ last.recv = 5

\* C21: the pipeline that creates an empty cart, adds item "1", adds item
\* "2", removes item "1" and pays unwraps to Ok of a PaidCart whose items
\* are item "2" and nothing else, in either module; tapError and mapError
\* at its end call nothing.
C21_CartEndToEnd ==
  IsCartPipeExample
    => /\ last.value.tag = "Ok"
       /\ last.value.data._tag = "PaidCart"
       /\ ItemIdsOf(last.value.data) = <<"2">>
       /\ last.value.data.value = <<heap[3].result.data.value[2]>>
       /\ last.calls = <<>>
       /\ ~last.raised

\* The example ran in cart-example.ts and returned the paid cart.
C21_Witness ==
  /\ IsCartPipeExample /\ CartModule = "cart-example"
  /\ HoldsCart(3, "ActiveCart") /\ ItemIdsOf(heap[3].result.data) = <<"1", "2">>
  /\ HoldsCart(5, "PaidCart")
  /\ last.value = heap[5].result
  /\ ItemIdsOf(last.value.data) = <<"2">>

\* C22 as stated: an add step whose item, made by the item constructor on
\* this call, has the id of an item of the cart returns
\* Error("ItemAlreadyInCart"); no callback runs on a link that holds an
\* Error; and no cart holds two items of one id.
C22_DuplicateRejected ==
  /\ \A p \in DOMAIN heap :
       (IsStep(p, "add") /\ HoldsCart(p - 1, "ActiveCart")
          /\ isOk(tryCreateItem(heap[p].fn.arg, p))
          /\ \E n \in 1..Len(heap[p - 1].result.data.value) :
               ItemIdsOf(heap[p - 1].result.data)[n] = heap[p].fn.arg.id)
         => /\ isError(heap[p].result)
            /\ heap[p].result.error = "ItemAlreadyInCart"
  /\ (last.op = "flatMap" /\ isError(heap[last.recv].result)) => last.calls = <<>>
  /\ \A p \in DOMAIN heap :
       isOk(heap[p].result)
         => \A n \in 1..Len(heap[p].result.data.value), k \in 1..Len(heap[p].result.data.value) :
              ItemIdsOf(heap[p].result.data)[n] = ItemIdsOf(heap[p].result.data)[k] => n = k

\* C23: in every cart pipeline an ActiveCart holds at least one item and an
\* EmptyCart none, removing the last item gives an EmptyCart, the pay step
\* returns Error("EmptyCart") for an EmptyCart, and so every PaidCart holds
\* at least one item.
C23_EmptyCartNeverPaid ==
  /\ \A p \in DOMAIN heap :
       /\ HoldsCart(p, "ActiveCart") => Len(heap[p].result.data.value) >= 1
       /\ HoldsCart(p, "EmptyCart") => Len(heap[p].result.data.value) = 0
       /\ HoldsCart(p, "PaidCart") => Len(heap[p].result.data.value) >= 1
       /\ (IsStep(p, "pay") /\ HoldsCart(p - 1, "EmptyCart"))
            => isError(heap[p].result) /\ heap[p].result.error = "EmptyCart"
       /\ (IsStep(p, "pay") /\ HoldsCart(p - 1, "ActiveCart"))
            => HoldsCart(p, "PaidCart")
                 /\ heap[p].result.data.value = heap[p - 1].result.data.value
  /\ (last.op = "cartPipeExamples" /\ last.value.tag = "Ok"
        /\ last.value.data._tag = "PaidCart")
       => Len(last.value.data.value) >= 1

\* The only item was removed, which gave an EmptyCart, and the pay step
\* returned Error("EmptyCart").
C23_Witness ==
  /\ Len(heap) = 4
  /\ IsStep(2, "add") /\ HoldsCart(2, "ActiveCart")
  /\ IsStep(3, "remove") /\ HoldsCart(3, "EmptyCart")
  /\ IsStep(4, "pay") /\ isError(heap[4].result) /\ heap[4].result.error = "EmptyCart"
  /\ last.op = "cartPipeExamples" /\ last.value = error("Handled: EmptyCart")

====
